---- MODULE Spec2Model ----
(***************************************************************************)
(* A model of resizeImage.py: the batch driver process_folder, the        *)
(* per-file pipeline process_image, and the pure stages                    *)
(* remove_grey_background, ensure_pure_white_background, trim_border and   *)
(* resize_image.                                                           *)
(*                                                                         *)
(* Four specifications share the module:                                   *)
(*   Spec        the batch: process_folder driving process_image step by   *)
(*               step over a folder listing;                               *)
(*   SpecResize  resize_image's size arithmetic on drawn (w, h, max_size); *)
(*   SpecNorm    the Normalizer on drawn RGBA images;                      *)
(*   SpecTrim    trim_border, applied up to twice, on drawn RGB images.    *)
(***************************************************************************)
EXTENDS Integers, Sequences, FiniteSets, TLC

(***************************************************************************)
(* Bounds of the model.                                                    *)
(***************************************************************************)
\* resize_image is checked for every width, height and max_size in 1..MaxSide
MaxSide == 9
\* the Normalizer is checked on every RGBA image of at most MaxNormPixels pixels
MaxNormPixels == 2
\* trim_border is checked on every RGB image of at most MaxTrimPixels pixels
MaxTrimPixels == 6
\* the batch is checked on every folder listing of at most MaxFiles entries
MaxFiles == 2

VARIABLES
    fn,         \* function-level specifications: the function under test
    arg,        \* its drawn input
    res,        \* the sequence of results of the calls made so far
    pc,         \* the batch: the statement process_folder / process_image is at
    cfg,        \* max_size, final_size and background_color given to process_folder
    listing,    \* os.listdir(input_folder)
    todo,       \* the entries the for loop has not reached yet
    cur,        \* the entry being processed
    img,        \* the image process_image is working on
    final_img,  \* the canvas
    exc,        \* the exception being raised
    out,        \* the output folder: whether it exists, and its files
    log,        \* the lines printed
    handles,    \* the entries whose source file, opened by Image.open, is still open
    calls,      \* how often process_image was called on each entry
    raised,     \* the reason process_image failed on each entry ("" if it has not)
    saved       \* the entries whose output was written

fnVars    == <<fn, arg, res>>
batchVars == <<pc, cfg, listing, todo, cur, img, final_img, exc, out, log,
               handles, calls, raised, saved>>
vars      == <<fnVars, batchVars>>

(***************************************************************************)
(* Arbitrary-precision naturals, as sequences of base-2^15 limbs, least    *)
(* significant first, without leading zero limbs (zero is <<>>).  They     *)
(* carry the 53-bit significands of Python's floats.                       *)
(***************************************************************************)
Base == 2^15

RECURSIVE BigFromNat(_)
BigFromNat(n) == IF n = 0 THEN <<>> ELSE <<n % Base>> \o BigFromNat(n \div Base)

RECURSIVE BigToNat(_)
BigToNat(a) == IF a = <<>> THEN 0 ELSE a[1] + Base * BigToNat(Tail(a))

Limb(a, i) == IF i <= Len(a) THEN a[i] ELSE 0

RECURSIVE BigTrim(_)
BigTrim(a) ==
    IF a = <<>> THEN <<>>
    ELSE IF a[Len(a)] = 0 THEN BigTrim(SubSeq(a, 1, Len(a) - 1))
    ELSE a

RECURSIVE BigCmpFrom(_, _, _)
BigCmpFrom(a, b, i) ==
    IF i = 0 THEN 0
    ELSE IF a[i] < b[i] THEN -1
    ELSE IF a[i] > b[i] THEN 1
    ELSE BigCmpFrom(a, b, i - 1)

\* -1, 0 or 1 as a < b, a = b, a > b
BigCmp(a, b) ==
    IF Len(a) < Len(b) THEN -1
    ELSE IF Len(a) > Len(b) THEN 1
    ELSE BigCmpFrom(a, b, Len(a))

RECURSIVE BigSubFrom(_, _, _, _)
BigSubFrom(a, b, i, borrow) ==
    IF i > Len(a) THEN <<>>
    ELSE LET d == a[i] - Limb(b, i) - borrow
         IN  IF d < 0 THEN <<d + Base>> \o BigSubFrom(a, b, i + 1, 1)
             ELSE <<d>> \o BigSubFrom(a, b, i + 1, 0)

\* a - b, for a >= b
BigSub(a, b) == BigTrim(BigSubFrom(a, b, 1, 0))

RECURSIVE BigMulSmallFrom(_, _, _, _)
BigMulSmallFrom(a, c, i, carry) ==
    IF i > Len(a) THEN BigFromNat(carry)
    ELSE LET p == a[i] * c + carry
         IN  <<p % Base>> \o BigMulSmallFrom(a, c, i + 1, p \div Base)

\* a * c, for 0 <= c <= Base
BigMulSmall(a, c) == IF c = 0 THEN <<>> ELSE BigMulSmallFrom(a, c, 1, 0)

RECURSIVE BigShl(_, _)
BigShl(a, k) ==
    IF a = <<>> \/ k = 0 THEN a
    ELSE IF k >= 15 THEN BigShl(<<0>> \o a, k - 15)
    ELSE BigMulSmall(a, 2^k)

RECURSIVE BigShr(_, _)
BigShr(a, k) ==
    IF a = <<>> \/ k = 0 THEN a
    ELSE IF k >= 15 THEN BigShr(Tail(a), k - 15)
    ELSE BigTrim([i \in 1..Len(a) |->
                    (a[i] \div 2^k) + (Limb(a, i + 1) % 2^k) * 2^(15 - k)])

RECURSIVE NatBitLen(_)
NatBitLen(n) == IF n = 0 THEN 0 ELSE 1 + NatBitLen(n \div 2)

BigBitLen(a) ==
    IF a = <<>> THEN 0 ELSE 15 * (Len(a) - 1) + NatBitLen(a[Len(a)])

BigIsOdd(a) == a # <<>> /\ a[1] % 2 = 1

\* a + 1
RECURSIVE BigInc(_)
BigInc(a) ==
    IF a = <<>> THEN <<1>>
    ELSE IF a[1] + 1 < Base THEN <<a[1] + 1>> \o Tail(a)
    ELSE <<0>> \o BigInc(Tail(a))

(***************************************************************************)
(* IEEE 754 binary64, Python's float: a positive float is [m, e], the      *)
(* value m * 2^e with m a 53-bit significand (2^52 <= m < 2^53).           *)
(***************************************************************************)
MantBits == 53

\* the next n bits (most significant first) of the binary expansion of r / y,
\* for r < y, and the remainder left after them: schoolbook long division, the
\* n steps split in halves to keep the evaluation shallow
DivBits[t \in Seq(Nat) \X Seq(Nat) \X Nat] ==
    LET r == t[1]
        y == t[2]
        n == t[3]
    IN  IF n = 0 THEN [bits |-> <<>>, r |-> r]
        ELSE IF n = 1
        THEN LET r2 == BigShl(r, 1)
             IN  IF BigCmp(r2, y) >= 0
                 THEN [bits |-> <<1>>, r |-> BigSub(r2, y)]
                 ELSE [bits |-> <<0>>, r |-> r2]
        ELSE LET hi == DivBits[<<r, y, n \div 2>>]
                 lo == DivBits[<<hi.r, y, n - (n \div 2)>>]
             IN  [bits |-> hi.bits \o lo.bits, r |-> lo.r]

\* bit p (0 the least significant) of a most-significant-first bit sequence
BitAt(bits, p) == IF p < Len(bits) THEN bits[Len(bits) - p] ELSE 0

RECURSIVE LimbOfBits(_, _, _)
LimbOfBits(bits, lo, k) ==
    IF k = 15 THEN 0 ELSE BitAt(bits, lo + k) * 2^k + LimbOfBits(bits, lo, k + 1)

BigFromBits(bits) ==
    BigTrim([i \in 1..((Len(bits) + 14) \div 15) |-> LimbOfBits(bits, 15 * (i - 1), 0)])

\* num / den for naturals num, den > 0, correctly rounded (round half to even)
RoundDiv(num, den) ==
    LET d0 == BigBitLen(num) - BigBitLen(den)
        x0 == IF d0 < 0 THEN BigShl(num, -d0) ELSE num
        y  == IF d0 > 0 THEN BigShl(den, d0) ELSE den
        lt == BigCmp(x0, y) < 0
        x  == IF lt THEN BigShl(x0, 1) ELSE x0
        d  == IF lt THEN d0 - 1 ELSE d0
        \* now y <= x < 2y: the quotient is (x / y) * 2^d with 1 <= x / y < 2
        s  == DivBits[<<BigSub(x, y), y, MantBits>>]
        q  == BigFromBits(<<1>> \o SubSeq(s.bits, 1, MantBits - 1))
        up == s.bits[MantBits] = 1 /\ (s.r # <<>> \/ BigIsOdd(q))
        m  == IF up THEN BigInc(q) ELSE q
    IN  IF BigBitLen(m) > MantBits
        THEN [m |-> BigShr(m, 1), e |-> d - (MantBits - 1) + 1]
        ELSE [m |-> m, e |-> d - (MantBits - 1)]

\* a / b for ints a, b > 0 (true division of two ints)
IntTrueDiv(a, b) == RoundDiv(BigFromNat(a), BigFromNat(b))

\* n / f for an int n > 0 and a float f
IntDivFloat(n, f) ==
    LET q == RoundDiv(BigFromNat(n), f.m) IN [m |-> q.m, e |-> q.e - f.e]

\* n * f for an int n > 0 and a float f
IntMulFloat(n, f) ==
    LET p == RoundDiv(BigMulSmall(f.m, n), <<1>>) IN [m |-> p.m, e |-> p.e + f.e]

\* int(f): truncation toward zero of a positive float
FloatToInt(f) ==
    IF f.e >= 0 THEN BigToNat(BigShl(f.m, f.e)) ELSE BigToNat(BigShr(f.m, -f.e))

(***************************************************************************)
(* resize_image: the size passed to image.resize.                          *)
(***************************************************************************)
resize_image(size, max_size) ==
    LET original_width  == size[1]
        original_height == size[2]
        aspect_ratio    == IntTrueDiv(original_width, original_height)
    IN  IF original_width > original_height
        THEN <<max_size, FloatToInt(IntDivFloat(max_size, aspect_ratio))>>
        ELSE <<FloatToInt(IntMulFloat(max_size, aspect_ratio)), max_size>>

(***************************************************************************)
(* Raster images: [mode, size, px] with size = <<width, height>> and       *)
(* px[y][x] the pixel at column x of row y (both from 0), a tuple of 8-bit *)
(* channel values.                                                         *)
(***************************************************************************)
\* Python's None, where a colour or a box is optional
None == <<>>

Abs(n) == IF n < 0 THEN -n ELSE n

Min(S) == CHOOSE m \in S : \A n \in S : m <= n
Max(S) == CHOOSE m \in S : \A n \in S : m >= n

Cols(image) == 0..(image.size[1] - 1)
Rows(image) == 0..(image.size[2] - 1)

\* Image.new(mode, size, color)
ImageNew(mode, size, color) ==
    [mode |-> mode, size |-> size,
     px |-> [y \in 0..(size[2] - 1) |-> [x \in 0..(size[1] - 1) |-> color]]]

(***************************************************************************)
(* remove_grey_background                                                  *)
(***************************************************************************)
DefaultGreyThreshold == <<200, 200, 200>>
DefaultReplaceColor  == <<255, 255, 255>>

\* remove_grey_background with exclusive bounds (> for >=)
remove_grey_background_exclusive(image, grey_threshold, replace_color) ==
    [mode |-> "RGBA", size |-> image.size,
     px |-> [y \in Rows(image) |-> [x \in Cols(image) |->
                IF /\ image.px[y][x][1] > grey_threshold[1]
                   /\ image.px[y][x][2] > grey_threshold[2]
                   /\ image.px[y][x][3] > grey_threshold[3]
                THEN <<replace_color[1], replace_color[2], replace_color[3],
                       image.px[y][x][4]>>
                ELSE image.px[y][x]]]]

remove_grey_background(image, grey_threshold, replace_color) ==
    LET data == image.px              \* np.array(image): indexed [y][x][channel]
        \* data.T is indexed [channel][x][y]
        red   == [x \in Cols(image) |-> [y \in Rows(image) |-> data[y][x][1]]]
        green == [x \in Cols(image) |-> [y \in Rows(image) |-> data[y][x][2]]]
        blue  == [x \in Cols(image) |-> [y \in Rows(image) |-> data[y][x][3]]]
        grey_background ==
            [x \in Cols(image) |-> [y \in Rows(image) |->
                /\ red[x][y]   >= grey_threshold[1]
                /\ green[x][y] >= grey_threshold[2]
                /\ blue[x][y]  >= grey_threshold[3]]]
        \* data[..., :-1][grey_background.T] = replace_color
        replaced ==
            [y \in Rows(image) |-> [x \in Cols(image) |->
                IF grey_background[x][y]
                THEN <<replace_color[1], replace_color[2], replace_color[3],
                       data[y][x][4]>>
                ELSE data[y][x]]]
    IN  [mode |-> "RGBA", size |-> image.size, px |-> replaced]

(***************************************************************************)
(* ensure_pure_white_background                                            *)
(***************************************************************************)
\* one channel of Image.composite(image, bg, alpha): the mask-weighted blend of
\* a foreground and a background byte, divided by 255 and rounded to nearest
\* Blend8 with the mask inverted (the composite's two images swapped)
Blend8_swapped(mask, back, fore) ==
    LET tmp == fore * (255 - mask) + back * mask + 128
    IN  ((tmp \div 256) + tmp) \div 256

Blend8(mask, back, fore) ==
    LET tmp == back * (255 - mask) + fore * mask + 128
    IN  ((tmp \div 256) + tmp) \div 256

\* lines 35-40: the transparency branch, or the plain conversion to RGB
flatten_transparency(image, background_color) ==
    IF image.mode \in {"RGBA", "LA"}
    THEN LET alpha == [y \in Rows(image) |-> [x \in Cols(image) |-> image.px[y][x][4]]]
             bg    == ImageNew("RGBA", image.size, background_color \o <<255>>)
             composite ==
                 [y \in Rows(image) |-> [x \in Cols(image) |->
                     [c \in 1..4 |->
                         Blend8(alpha[y][x], bg.px[y][x][c], image.px[y][x][c])]]]
         IN  [mode |-> "RGB", size |-> image.size,
              px |-> [y \in Rows(image) |-> [x \in Cols(image) |->
                         SubSeq(composite[y][x], 1, 3)]]]
    ELSE [mode |-> "RGB", size |-> image.size,
          px |-> [y \in Rows(image) |-> [x \in Cols(image) |->
                     SubSeq(image.px[y][x], 1, 3)]]]

ensure_pure_white_background(image, background_color) ==
    flatten_transparency(
        remove_grey_background(image, DefaultGreyThreshold, DefaultReplaceColor),
        background_color)

(***************************************************************************)
(* trim_border                                                             *)
(***************************************************************************)
\* ImageChops.difference(a, b): per channel, the absolute difference
ChopsDifference(a, b) ==
    [mode |-> a.mode, size |-> a.size,
     px |-> [y \in Rows(a) |-> [x \in Cols(a) |->
                [c \in DOMAIN a.px[y][x] |-> Abs(a.px[y][x][c] - b.px[y][x][c])]]]]

\* Image.getbbox(): (left, upper, right, lower) of the non-zero pixels, right and
\* lower exclusive; None when every pixel is zero
\* getbbox with right and lower inclusive
getbbox_inclusive(image) ==
    LET nonzero == {p \in Cols(image) \X Rows(image) :
                       \E c \in DOMAIN image.px[p[2]][p[1]] : image.px[p[2]][p[1]][c] # 0}
        xs == {p[1] : p \in nonzero}
        ys == {p[2] : p \in nonzero}
    IN  IF nonzero = {} THEN None
        ELSE <<Min(xs), Min(ys), Max(xs), Max(ys)>>

getbbox(image) ==
    LET nonzero == {p \in Cols(image) \X Rows(image) :
                       \E c \in DOMAIN image.px[p[2]][p[1]] : image.px[p[2]][p[1]][c] # 0}
        xs == {p[1] : p \in nonzero}
        ys == {p[2] : p \in nonzero}
    IN  IF nonzero = {} THEN None
        ELSE <<Min(xs), Min(ys), Max(xs) + 1, Max(ys) + 1>>

\* Image.crop(box)
crop(image, box) ==
    [mode |-> image.mode,
     size |-> <<box[3] - box[1], box[4] - box[2]>>,
     px |-> [y \in 0..(box[4] - box[2] - 1) |-> [x \in 0..(box[3] - box[1] - 1) |->
                image.px[y + box[2]][x + box[1]]]]]

\* trim_border sampling the default border colour from the bottom-right pixel
trim_border_other_corner(image, border_color) ==
    LET color == IF border_color = None
                 THEN image.px[image.size[2] - 1][image.size[1] - 1]
                 ELSE border_color
        bbox  == getbbox(ChopsDifference(image, ImageNew(image.mode, image.size, color)))
    IN  IF bbox # None THEN crop(image, bbox) ELSE image

trim_border(image, border_color) ==
    LET color == IF border_color = None THEN image.px[0][0] ELSE border_color
        bg    == ImageNew(image.mode, image.size, color)
        diff  == ChopsDifference(image, bg)
        bbox  == getbbox(diff)
    IN  IF bbox # None THEN crop(image, bbox) ELSE image

\* the batch variables, in the specifications that do not run the batch
BatchIdle ==
    /\ pc = "idle" /\ cfg = <<>> /\ listing = {} /\ todo = {} /\ cur = <<>>
    /\ img = <<>> /\ final_img = <<>> /\ exc = <<>> /\ out = <<>> /\ log = <<>>
    /\ handles = {} /\ calls = <<>> /\ raised = <<>> /\ saved = {}

(***************************************************************************)
(* SpecResize: resize_image on every drawn input.                          *)
(***************************************************************************)
ResizeInputs ==
    [size : (1..MaxSide) \X (1..MaxSide), max_size : 1..MaxSide]

InitResize ==
    /\ fn = "resize_image"
    /\ arg \in ResizeInputs
    /\ res = <<>>
    /\ BatchIdle

CallResize ==
    /\ fn = "resize_image"
    /\ res = <<>>
    /\ res' = <<resize_image(arg.size, arg.max_size)>>
    /\ UNCHANGED <<fn, arg, batchVars>>

NextResize == CallResize

SpecResize == InitResize /\ [][NextResize]_vars

(***************************************************************************)
(* Drawn images: every image of the given mode with at most n pixels, each *)
(* pixel drawn from a palette.                                             *)
(***************************************************************************)
Shapes(n) == {s \in (1..n) \X (1..n) : s[1] * s[2] <= n}

Images(mode, n, palette) ==
    UNION {[mode : {mode}, size : {s},
            px : [0..(s[2] - 1) -> [0..(s[1] - 1) -> palette]]] : s \in Shapes(n)}

(***************************************************************************)
(* SpecNorm: remove_grey_background and ensure_pure_white_background on    *)
(* every drawn RGBA image and every drawn setting.                         *)
(***************************************************************************)
NormPalette ==
    { <<255, 255, 255, 255>>,    \* white, opaque
      <<220, 220, 220, 255>>,    \* light grey, opaque
      <<200, 200, 200, 0>>,      \* exactly the default threshold, transparent
      <<199, 200, 200, 255>>,    \* red one below the default threshold
      <<230, 210, 250, 128>>,    \* light, half transparent
      <<150, 160, 250, 255>>,    \* below the default threshold, above (100,150,250)
      <<10, 20, 30, 128>> }      \* dark, half transparent

Thresholds    == {DefaultGreyThreshold, <<100, 150, 250>>}
ReplaceColors == {DefaultReplaceColor, <<1, 2, 3>>}
Backgrounds   == {<<255, 255, 255>>, <<0, 0, 0>>, <<10, 20, 30>>}

InitNorm ==
    /\ fn = "none"
    /\ arg \in [image : Images("RGBA", MaxNormPixels, NormPalette),
                grey_threshold : Thresholds,
                replace_color : ReplaceColors,
                background_color : Backgrounds]
    /\ res = <<>>
    /\ BatchIdle

CallRemoveGrey ==
    /\ fn = "none"
    /\ fn' = "remove_grey_background"
    /\ res' = <<remove_grey_background(arg.image, arg.grey_threshold, arg.replace_color)>>
    /\ UNCHANGED <<arg, batchVars>>

CallNormalizer ==
    /\ fn = "none"
    /\ fn' = "ensure_pure_white_background"
    /\ res' = <<ensure_pure_white_background(arg.image, arg.background_color)>>
    /\ UNCHANGED <<arg, batchVars>>

NextNorm == CallRemoveGrey \/ CallNormalizer

SpecNorm == InitNorm /\ [][NextNorm]_vars

(***************************************************************************)
(* SpecTrim: trim_border applied once, and again to its own result, on     *)
(* every drawn RGB image, with the default and with explicit border        *)
(* colours.                                                                *)
(***************************************************************************)
TrimPalette == { <<255, 255, 255>>, <<255, 255, 254>>, <<200, 30, 30>> }

InitTrim ==
    /\ fn = "trim_border"
    /\ arg \in Images("RGB", MaxTrimPixels, TrimPalette)
    /\ res = <<>>
    /\ BatchIdle

\* the image the next call of trim_border is given
TrimInput == IF res = <<>> THEN arg ELSE res[Len(res)].out

CallTrim(border_color) ==
    /\ fn = "trim_border"
    /\ Len(res) < 2
    /\ res' = Append(res, [image |-> TrimInput, border_color |-> border_color,
                           out |-> trim_border(TrimInput, border_color)])
    /\ UNCHANGED <<fn, arg, batchVars>>

NextTrim == \E border_color \in {None} \cup TrimPalette : CallTrim(border_color)

SpecTrim == InitTrim /\ [][NextTrim]_vars


(***************************************************************************)
(* The batch: process_folder and process_image.                            *)
(*                                                                         *)
(* A file name is the sequence of its parts between dots: "a.png" is       *)
(* <<"a", "png">>, ".gif" is <<"", "gif">>.  What a file holds is not known *)
(* before it is opened: Image.open draws it from Pictures.  The stages up  *)
(* to the trim work on its pixels; the resampling filter is left out, and  *)
(* the resized subject is a test pattern whose pixel at (x, y) is          *)
(* <<x, y, 128>>, so that the canvas shows where each of its pixels went.  *)
(***************************************************************************)
FileNames == { <<"a", "png">>, <<"a", "JPG">>, <<"notes", "txt">>, <<"", "gif">> }

\* an RGBA picture of the given frame count, from its rows of pixels
Picture(frames, rows) ==
    [mode |-> "RGBA", frames |-> frames, size |-> <<Len(rows[1]), Len(rows)>>,
     px |-> [y \in 0..(Len(rows) - 1) |->
                [x \in 0..(Len(rows[1]) - 1) |-> rows[y + 1][x + 1]]]]

\* the pictures the files may hold: G a light grey background, R the subject,
\* T a transparent pixel
Pictures ==
    LET G == <<220, 220, 220, 255>>
        R == <<200, 30, 30, 255>>
        T == <<0, 0, 0, 0>>
    IN  { Picture(1, << <<G>> >>),                           \* blank
          Picture(1, << <<G, R, R>>, <<G, G, G>> >>),        \* subject 2x1
          Picture(1, << <<G, G>>, <<R, R>>, <<R, R>>, <<R, R>> >>),  \* subject 2x3
          Picture(1, << <<R, G>>, <<R, G>>, <<R, G>>, <<R, G>> >>),  \* subject in the corner
          Picture(2, << <<T, R>> >>) }                       \* two frames, transparent

\* the settings process_folder may be called with
Configs ==
    { [max_size |-> 2, final_size |-> <<4, 3>>, background_color |-> <<255, 255, 255>>],
      [max_size |-> 3, final_size |-> <<2, 2>>, background_color |-> <<0, 0, 0>>] }

\* resize_image on the sizes and settings of the batch, computed once
ResizeCache ==
    [size \in {s \in (1..4) \X (1..4) : \E p \in Pictures :
                                          s[1] <= p.size[1] /\ s[2] <= p.size[2]},
     max_size \in {c.max_size : c \in Configs} |-> resize_image(size, max_size)]

input_folder  == "input_folder"
output_folder == "output_folder"

\* str.lower() on the extensions of FileNames
Lower(str) == CASE str = "JPG" -> "jpg" [] OTHER -> str

\* filename.lower().endswith(('.png', '.jpg', '.jpeg', '.bmp', '.gif', '.webp'))
HasImageExtension(filename) ==
    /\ Len(filename) >= 2
    /\ Lower(filename[Len(filename)]) \in {"png", "jpg", "jpeg", "bmp", "gif", "webp"}

\* os.path.splitext(name)[0]: the name without its last extension; leading dots
\* start no extension
SplitextRoot(filename) ==
    IF Len(filename) >= 2 /\ \E i \in 1..(Len(filename) - 1) : filename[i] # ""
    THEN SubSeq(filename, 1, Len(filename) - 1)
    ELSE filename

\* os.path.join(folder, filename)
PathJoin(folder, filename) == <<folder>> \o filename

\* os.path.splitext(output_path)[0] + ".webp"
OutputWebpPath(filename) == PathJoin(output_folder, SplitextRoot(filename) \o <<"webp">>)

\* the classes the handler's "except Exception" catches, among those raised here
ExceptionSubclasses ==
    {"UnidentifiedImageError", "OSError", "ValueError", "MemoryError"}

NoException == <<>>

\* the offset with a division that rounds toward zero
center_offset_truncating(canvas_dim, subject_dim) ==
    IF canvas_dim < subject_dim
    THEN -((subject_dim - canvas_dim) \div 2)
    ELSE (canvas_dim - subject_dim) \div 2

\* (canvas - subject) // 2: Python's floor division
center_offset(canvas_dim, subject_dim) == (canvas_dim - subject_dim) \div 2

\* the image image.resize(size, Image.LANCZOS) returns, as a test pattern
Resized(size) ==
    [mode |-> "RGB", size |-> size,
     px |-> [y \in 0..(size[2] - 1) |-> [x \in 0..(size[1] - 1) |-> <<x, y, 128>>]]]

\* Image.paste(im, (x, y)): im overwrites the canvas from (x, y), clipped to it
Paste(canvas, im, at) ==
    [canvas EXCEPT !.px =
        [y \in Rows(canvas) |-> [x \in Cols(canvas) |->
            IF (x - at[1]) \in Cols(im) /\ (y - at[2]) \in Rows(im)
            THEN im.px[y - at[2]][x - at[1]]
            ELSE canvas.px[y][x]]]]

InitBatch ==
    /\ fn = "batch" /\ arg = <<>> /\ res = <<>>
    /\ pc = "process_folder"
    /\ cfg \in Configs
    /\ listing \in {l \in SUBSET FileNames : Cardinality(l) <= MaxFiles}
    /\ todo = listing
    /\ cur = <<>>
    /\ img = <<>>
    /\ final_img = <<>>
    /\ exc = NoException
    /\ out \in [exists : BOOLEAN, files : {{}}]
    /\ log = <<>>
    /\ handles = {}
    /\ calls = [f \in listing |-> 0]
    /\ raised = [f \in listing |-> ""]
    /\ saved = {}

\* raise an exception inside process_image's try block
Raise(cls, msg) ==
    /\ exc' = [cls |-> cls, msg |-> msg]
    /\ raised' = [raised EXCEPT ![cur] = msg]
    /\ pc' = "except"

\* lines 112-113
MakeDirs ==
    /\ pc = "process_folder"
    /\ out' = [out EXCEPT !.exists = TRUE]
    /\ pc' = "for"
    /\ UNCHANGED <<fnVars, cfg, listing, todo, cur, img, final_img, exc, log,
                   handles, calls, raised, saved>>

\* lines 115-119: the next entry, in whatever order listdir gave; one with a
\* matching extension is handed to process_image
NextEntry ==
    /\ pc = "for"
    /\ \E filename \in todo :
          /\ todo' = todo \ {filename}
          /\ IF HasImageExtension(filename)
             THEN /\ cur' = filename
                  /\ calls' = [calls EXCEPT ![filename] = @ + 1]
                  /\ pc' = "open"
             ELSE UNCHANGED <<cur, calls, pc>>
    /\ UNCHANGED <<fnVars, cfg, listing, img, final_img, exc, out, log, handles,
                   raised, saved>>

\* the for loop is exhausted: process_folder returns
Return ==
    /\ pc = "for"
    /\ todo = {}
    /\ pc' = "done"
    /\ UNCHANGED <<fnVars, cfg, listing, todo, cur, img, final_img, exc, out, log,
                   handles, calls, raised, saved>>

\* line 83, Image.open(input_path): the file is identified and stays open, or
\* is no image, and is closed again
Open ==
    /\ pc = "open"
    /\ \/ /\ Raise("UnidentifiedImageError", "cannot identify image file")
          /\ UNCHANGED <<img, handles>>
       \/ /\ img' \in Pictures
          /\ handles' = handles \cup {cur}
          /\ pc' = "convert"
          /\ UNCHANGED <<exc, raised>>
    /\ UNCHANGED <<fnVars, cfg, listing, todo, cur, final_img, out, log, calls, saved>>

\* line 83, .convert("RGBA"): the pixels are loaded.  Loading closes the file of
\* a single-frame image; it leaves a multi-frame file open, and a file whose
\* data does not decode.  The with statement then manages the converted copy:
\* nothing closes the opened file explicitly.
Convert ==
    /\ pc = "convert"
    /\ \/ /\ Raise("OSError", "image file is truncated")
          /\ UNCHANGED <<handles, img>>
       \/ /\ handles' = IF img.frames = 1 THEN handles \ {cur} ELSE handles
          /\ img' = [mode |-> "RGBA", size |-> img.size, px |-> img.px]
          /\ pc' = "normalize"
          /\ UNCHANGED <<exc, raised>>
    /\ UNCHANGED <<fnVars, cfg, listing, todo, cur, final_img, out, log, calls, saved>>

\* line 85, ensure_pure_white_background
Normalize ==
    /\ pc = "normalize"
    /\ \/ Raise("MemoryError", "normalize") /\ UNCHANGED img
       \/ /\ img' = ensure_pure_white_background(img, cfg.background_color)
          /\ pc' = "trim"
          /\ UNCHANGED <<exc, raised>>
    /\ UNCHANGED <<fnVars, cfg, listing, todo, cur, final_img, out, log, handles,
                   calls, saved>>

\* line 88, trim_border with the default border colour
Trim ==
    /\ pc = "trim"
    /\ \/ Raise("MemoryError", "trim") /\ UNCHANGED img
       \/ /\ img' = trim_border(img, None)
          /\ pc' = "resize"
          /\ UNCHANGED <<exc, raised>>
    /\ UNCHANGED <<fnVars, cfg, listing, todo, cur, final_img, out, log, handles,
                   calls, saved>>

\* line 91, resize_image: image.resize rejects a size with a zero side
Resize ==
    /\ pc = "resize"
    /\ LET size == ResizeCache[img.size, cfg.max_size]
       IN  IF size[1] < 1 \/ size[2] < 1
           THEN Raise("ValueError", "height and width must be > 0") /\ UNCHANGED img
           ELSE /\ img' = Resized(size)
                /\ pc' = "compose"
                /\ UNCHANGED <<exc, raised>>
    /\ UNCHANGED <<fnVars, cfg, listing, todo, cur, final_img, out, log, handles,
                   calls, saved>>

\* lines 94-99: the canvas, and the subject pasted at its centre
Compose ==
    /\ pc = "compose"
    /\ \/ Raise("MemoryError", "paste") /\ UNCHANGED final_img
       \/ /\ LET resized_img == img
                 x_offset == center_offset(cfg.final_size[1], resized_img.size[1])
                 y_offset == center_offset(cfg.final_size[2], resized_img.size[2])
             IN  final_img' = Paste(ImageNew("RGB", cfg.final_size, cfg.background_color),
                                    resized_img, <<x_offset, y_offset>>)
          /\ pc' = "save"
          /\ UNCHANGED <<exc, raised>>
    /\ UNCHANGED <<fnVars, cfg, listing, todo, cur, img, out, log, handles, calls, saved>>

\* lines 102-103: the canvas is written to the .webp path, replacing a file of
\* that name; a failed save leaves the folder as it was
Save ==
    /\ pc = "save"
    /\ \/ Raise("OSError", "cannot write file") /\ UNCHANGED <<out, saved>>
       \/ /\ LET output_webp_path == OutputWebpPath(cur)
             IN  out' = [out EXCEPT !.files =
                            {file \in @ : file.path # output_webp_path} \cup
                            {[path |-> output_webp_path, image |-> final_img,
                              subject |-> img.size]}]
          /\ saved' = saved \cup {cur}
          /\ pc' = "print"
          /\ UNCHANGED <<exc, raised>>
    /\ UNCHANGED <<fnVars, cfg, listing, todo, cur, img, final_img, log, handles, calls>>

\* line 104, and the end of the with block and of process_image
PrintSaved ==
    /\ pc = "print"
    /\ log' = Append(log, [line |-> "Processed and saved", path |-> OutputWebpPath(cur),
                           reason |-> ""])
    /\ pc' = "for"
    /\ cur' = <<>>
    /\ img' = <<>>
    /\ final_img' = <<>>
    /\ UNCHANGED <<fnVars, cfg, listing, todo, exc, out, handles, calls, raised, saved>>

\* a handler written "except OSError"
Catches_os_errors_only(cls) == cls \in {"OSError", "UnidentifiedImageError"}

\* the classes "except Exception" is taken to catch
Catches(cls) == cls \in ExceptionSubclasses

\* a handler that swallows the exception without printing
Except_silent ==
    /\ pc = "except"
    /\ pc' = "for"
    /\ exc' = NoException
    /\ cur' = <<>>
    /\ img' = <<>>
    /\ final_img' = <<>>
    /\ UNCHANGED <<fnVars, cfg, listing, todo, out, log, handles, calls, raised, saved>>

\* lines 105-106: the handler prints the input path and the reason, and
\* process_image returns; an exception it does not catch leaves process_image
\* and process_folder
Except ==
    /\ pc = "except"
    /\ IF Catches(exc.cls)
       THEN /\ log' = Append(log, [line |-> "Error processing",
                                   path |-> PathJoin(input_folder, cur),
                                   reason |-> exc.msg])
            /\ pc' = "for"
       ELSE /\ pc' = "aborted"
            /\ UNCHANGED log
    /\ exc' = NoException
    /\ cur' = <<>>
    /\ img' = <<>>
    /\ final_img' = <<>>
    /\ UNCHANGED <<fnVars, cfg, listing, todo, out, handles, calls, raised, saved>>

\* the opened image is a temporary of line 83: once convert has returned, or the
\* exception it raised has been handled, nothing refers to it, and the
\* interpreter closes its file whenever it collects the object
Collect ==
    /\ \E filename \in handles :
          /\ ~(filename = cur /\ pc \in {"convert", "except"})
          /\ handles' = handles \ {filename}
    /\ UNCHANGED <<fnVars, pc, cfg, listing, todo, cur, img, final_img, exc, out, log,
                   calls, raised, saved>>

Next ==
    \/ MakeDirs \/ NextEntry \/ Return
    \/ Open \/ Convert \/ Normalize \/ Trim \/ Resize \/ Compose \/ Save \/ PrintSaved
    \/ Except
    \/ Collect

Init == InitBatch

Spec == Init /\ [][Next]_vars

(***************************************************************************)
(* Properties of the batch (Spec).                                         *)
(***************************************************************************)
\* floor(d / 2), by its defining inequalities
FloorHalf(d) == CHOOSE o \in (-(Abs(d) + 1))..(Abs(d) + 1) : 2 * o <= d /\ d <= 2 * o + 1

\* the canvas pixel (x, y) lies inside a subject of the given size pasted at
\* the floored centre offset
InSubject(x, y, subject) ==
    LET x_offset == FloorHalf(cfg.final_size[1] - subject[1])
        y_offset == FloorHalf(cfg.final_size[2] - subject[2])
    IN  /\ x_offset <= x /\ x < x_offset + subject[1]
        /\ y_offset <= y /\ y < y_offset + subject[2]

\* C1: every output written has exactly the size final_size; the resized subject
\* lies opaquely at offset ((canvas_w - subject_w) // 2, (canvas_h - subject_h) // 2),
\* floored, its overhang clipped; every other pixel is background_color.
C1_OutputIsCanvasWithCentredSubject ==
    \A file \in out.files :
        /\ file.image.size = cfg.final_size
        /\ DOMAIN file.image.px = 0..(cfg.final_size[2] - 1)
        /\ \A y \in DOMAIN file.image.px :
              /\ DOMAIN file.image.px[y] = 0..(cfg.final_size[1] - 1)
              /\ \A x \in DOMAIN file.image.px[y] :
                    file.image.px[y][x] =
                        IF InSubject(x, y, file.subject)
                        THEN <<x - FloorHalf(cfg.final_size[1] - file.subject[1]),
                               y - FloorHalf(cfg.final_size[2] - file.subject[2]), 128>>
                        ELSE cfg.background_color

\* an output was written whose subject is wider than the canvas by an odd
\* number of pixels (a negative offset, clipped on both sides) and shorter than
\* it (background above or below)
C1_Witness ==
    \E file \in out.files :
        /\ file.subject[1] > cfg.final_size[1]
        /\ (file.subject[1] - cfg.final_size[1]) % 2 = 1
        /\ file.subject[2] < cfg.final_size[2]
        /\ \E y \in DOMAIN file.image.px : file.image.px[y][0] = cfg.background_color

ErrorLine(filename) ==
    [line |-> "Error processing", path |-> PathJoin(input_folder, filename),
     reason |-> raised[filename]]

SavedLine(filename) ==
    [line |-> "Processed and saved", path |-> OutputWebpPath(filename), reason |-> ""]

Failed == {filename \in listing : raised[filename] # ""}

\* C2: a failure at any stage of process_image never aborts the batch: no
\* exception leaves process_image, process_folder calls process_image once on
\* every entry with a matching extension, and each failure is reported by a line
\* naming the input path and the reason.
C2_FailureNeverAbortsBatch ==
    /\ pc # "aborted"
    /\ pc = "done" =>
          \A filename \in listing :
              calls[filename] = IF HasImageExtension(filename) THEN 1 ELSE 0
    /\ pc \in {"for", "done"} =>
          \A filename \in Failed : \E i \in 1..Len(log) : log[i] = ErrorLine(filename)

\* a batch has ended in which one file failed and a file after it was saved
C2_Witness ==
    /\ pc = "done"
    /\ Len(log) = 2
    /\ log[1].line = "Error processing"
    /\ log[2].line = "Processed and saved"
    /\ Failed # {}
    /\ saved # {}

Count(line) == Cardinality({i \in 1..Len(log) : log[i].line = line})

\* C3 as stated: after process_folder, the output folder holds exactly one output
\* file for each successfully processed input and none for the failed ones, with
\* one success line per processed file and one failure line per failed file.
C3_OneOutputFilePerProcessedInput ==
    pc = "done" =>
        /\ Cardinality(out.files) = Cardinality(saved)
        /\ Count("Processed and saved") = Cardinality(saved)
        /\ Count("Error processing") = Cardinality(Failed)

\* C3 amended: after process_folder, the files of the output folder are exactly
\* the .webp paths of the successfully processed inputs, one file per path, so
\* that inputs differing only in their extension share one output file; there is
\* one success line per processed file and one failure line per failed file.
C3_OneOutputFilePerOutputPath ==
    pc = "done" =>
        /\ {file.path : file \in out.files} = {OutputWebpPath(filename) : filename \in saved}
        /\ Cardinality(out.files) = Cardinality({OutputWebpPath(filename) : filename \in saved})
        /\ Count("Processed and saved") = Cardinality(saved)
        /\ Count("Error processing") = Cardinality(Failed)
        /\ saved \cap Failed = {}
        /\ \A filename \in saved : \E i \in 1..Len(log) : log[i] = SavedLine(filename)
        /\ \A filename \in Failed :
              Cardinality({i \in 1..Len(log) : log[i] = ErrorLine(filename)}) = 1

\* a batch has ended in which two inputs that differ only in their extension
\* were both processed
C3_Witness ==
    /\ pc = "done"
    /\ Cardinality(saved) = 2
    /\ Cardinality(out.files) = 1
    /\ Count("Processed and saved") = 2

\* C10: the file opened by Image.open is closed on every exit path of
\* process_image: no source handle is open between two files of a batch, nor
\* after the batch.
C10_NoSourceHandleLeftOpen ==
    pc \in {"for", "done"} => handles = {}

(***************************************************************************)
(* Properties of resize_image (SpecResize).                                *)
(***************************************************************************)
\* the size the resizer is specified to produce: the longer side max_size, the
\* other side the exact ratio rounded down
ExactResize(size, max_size) ==
    IF size[1] > size[2]
    THEN <<max_size, (max_size * size[2]) \div size[1]>>
    ELSE <<(max_size * size[1]) \div size[2], max_size>>

\* C4: for every width, height and max_size >= 1, resize_image produces
\* (max_size, floor(max_size * h / w)) when w > h and
\* (floor(max_size * w / h), max_size) when w <= h.
C4_ResizeIsExactFloor ==
    (fn = "resize_image" /\ res # <<>>) =>
        res[1] = ExactResize(arg.size, arg.max_size)

(***************************************************************************)
(* Properties of the Normalizer (SpecNorm).                                *)
(***************************************************************************)
IsGrey(pixel, threshold) ==
    pixel[1] >= threshold[1] /\ pixel[2] >= threshold[2] /\ pixel[3] >= threshold[3]

AllGrey(image, threshold) ==
    \A y \in Rows(image) : \A x \in Cols(image) : IsGrey(image.px[y][x], threshold)

Uniform(image, color) ==
    \A y \in Rows(image) : \A x \in Cols(image) : image.px[y][x] = color

\* C5 as stated: for every image whose pixels all satisfy the grey threshold,
\* whatever their alpha and whatever background_color, the Normalizer returns an
\* RGB image of the same size in which every pixel equals replace_color.
C5_AllGreyGivesUniformReplaceColor ==
    (fn = "ensure_pure_white_background" /\ AllGrey(arg.image, DefaultGreyThreshold)) =>
        /\ res[1].mode = "RGB"
        /\ res[1].size = arg.image.size
        /\ Uniform(res[1], DefaultReplaceColor)

\* C5 amended: for every image whose pixels all satisfy the grey threshold, the
\* Normalizer returns an RGB image of the same size in which every pixel that is
\* fully opaque (alpha 255) equals replace_color, and every pixel does when
\* background_color is replace_color; a fully transparent pixel is
\* background_color.
C5_AllGreyOpaqueGivesReplaceColor ==
    (fn = "ensure_pure_white_background" /\ AllGrey(arg.image, DefaultGreyThreshold)) =>
        /\ res[1].mode = "RGB"
        /\ res[1].size = arg.image.size
        /\ \A y \in Rows(arg.image) : \A x \in Cols(arg.image) :
              /\ (arg.image.px[y][x][4] = 255 \/ arg.background_color = DefaultReplaceColor)
                    => res[1].px[y][x] = DefaultReplaceColor
              /\ arg.image.px[y][x][4] = 0 => res[1].px[y][x] = arg.background_color

\* an all-grey image of two pixels, one opaque and one not, has been normalized
\* onto a background that is not the replacement colour
C5_Witness ==
    /\ fn = "ensure_pure_white_background"
    /\ AllGrey(arg.image, DefaultGreyThreshold)
    /\ arg.background_color # DefaultReplaceColor
    /\ \E y \in Rows(arg.image) : \E x \in Cols(arg.image) :
          arg.image.px[y][x][4] = 255 /\ arg.image.px[y][x] # <<255, 255, 255, 255>>
    /\ \E y \in Rows(arg.image) : \E x \in Cols(arg.image) : arg.image.px[y][x][4] < 255

\* C7: the grey suppression inside the Normalizer uses the grey_threshold and
\* replace_color the caller configured, whatever their values.
C7_NormalizerHonoursSettings ==
    fn = "ensure_pure_white_background" =>
        res[1] = flatten_transparency(
                     remove_grey_background(arg.image, arg.grey_threshold,
                                            arg.replace_color),
                     arg.background_color)

\* C8: remove_grey_background overwrites a pixel's red, green and blue with
\* replace_color exactly when each is at or above its threshold component,
\* leaves its alpha and every other pixel untouched, and keeps the image size.
C8_PerPixelThreshold ==
    fn = "remove_grey_background" =>
        /\ res[1].size = arg.image.size
        /\ DOMAIN res[1].px = Rows(arg.image)
        /\ \A y \in Rows(arg.image) :
              /\ DOMAIN res[1].px[y] = Cols(arg.image)
              /\ \A x \in Cols(arg.image) :
                    LET old == arg.image.px[y][x]
                        new == res[1].px[y][x]
                    IN  /\ new[4] = old[4]
                        /\ IsGrey(old, arg.grey_threshold)
                              => SubSeq(new, 1, 3) = arg.replace_color
                        /\ ~IsGrey(old, arg.grey_threshold) => new = old

\* remove_grey_background has replaced a pixel lying exactly on the threshold and
\* kept the pixel beside it, which misses the threshold by one
C8_Witness ==
    /\ fn = "remove_grey_background"
    /\ arg.replace_color # DefaultReplaceColor
    /\ \E y \in Rows(arg.image) : \E x \in Cols(arg.image) :
          /\ SubSeq(arg.image.px[y][x], 1, 3) = arg.grey_threshold
          /\ SubSeq(res[1].px[y][x], 1, 3) = arg.replace_color
    /\ \E y \in Rows(arg.image) : \E x \in Cols(arg.image) :
          /\ ~IsGrey(arg.image.px[y][x], arg.grey_threshold)
          /\ res[1].px[y][x] = arg.image.px[y][x]

(***************************************************************************)
(* Properties of trim_border (SpecTrim).                                   *)
(***************************************************************************)
\* the border colour a recorded call of trim_border compared against
BorderColorOf(call) ==
    IF call.border_color = None THEN call.image.px[0][0] ELSE call.border_color

\* the pixels of a call's input that differ from its border colour in a channel
Differing(call) ==
    {p \in Cols(call.image) \X Rows(call.image) :
        call.image.px[p[2]][p[1]] # BorderColorOf(call)}

\* the rectangles <<left, upper, right, lower>> (right, lower exclusive) of an image
Boxes(image) ==
    {b \in (0..image.size[1]) \X (0..image.size[2]) \X
           (0..image.size[1]) \X (0..image.size[2]) : b[1] < b[3] /\ b[2] < b[4]}

BoxHolds(b, points) ==
    \A p \in points : b[1] <= p[1] /\ p[1] < b[3] /\ b[2] <= p[2] /\ p[2] < b[4]

BoxWithin(a, b) == b[1] <= a[1] /\ b[2] <= a[2] /\ a[3] <= b[3] /\ a[4] <= b[4]

IsCropOf(result, image, b) ==
    /\ result.mode = image.mode
    /\ result.size = <<b[3] - b[1], b[4] - b[2]>>
    /\ DOMAIN result.px = 0..(b[4] - b[2] - 1)
    /\ \A y \in DOMAIN result.px :
          /\ DOMAIN result.px[y] = 0..(b[3] - b[1] - 1)
          /\ \A x \in DOMAIN result.px[y] : result.px[y][x] = image.px[y + b[2]][x + b[1]]

\* C6 as stated: with the default border_color, trimming the result of a trim
\* again returns it unchanged, for every image.
C6_DefaultTrimIdempotent ==
    (Len(res) = 2 /\ res[1].border_color = None /\ res[2].border_color = None) =>
        res[2].out = res[1].out

\* C6 amended: trimming the result of a trim again returns it unchanged whenever
\* both trims compare against the same border colour: the same explicit
\* border_color, or, with the default, a trimmed image whose top-left pixel has
\* the colour of the original's top-left pixel.
C6_TrimIdempotentForSameBorderColor ==
    (Len(res) = 2 /\ BorderColorOf(res[1]) = BorderColorOf(res[2])) =>
        res[2].out = res[1].out

\* a default trim has cropped its image, and a second default trim of the result
\* sampled the same border colour
C6_Witness ==
    /\ Len(res) = 2
    /\ res[1].border_color = None
    /\ res[2].border_color = None
    /\ res[1].out.size # arg.size
    /\ res[1].out.size[1] > 1
    /\ BorderColorOf(res[1]) = BorderColorOf(res[2])

\* C9: trim_border returns the crop of its input to the smallest rectangle that
\* holds every pixel differing in any channel from the border colour (the
\* top-left pixel when none is given), and the input itself when no pixel
\* differs.
C9_TrimIsMinimalBoundingBox ==
    \A i \in 1..Len(res) :
        LET call == res[i]
            diff == Differing(call)
        IN  IF diff = {}
            THEN call.out = call.image
            ELSE \E b \in Boxes(call.image) :
                    /\ BoxHolds(b, diff)
                    /\ \A o \in Boxes(call.image) : BoxHolds(o, diff) => BoxWithin(b, o)
                    /\ IsCropOf(call.out, call.image, b)

\* trim_border has cropped an image on both axes, away from the corner it
\* sampled, and has returned a uniform image unchanged
C9_Witness ==
    /\ Len(res) = 2
    /\ res[1].border_color = None
    /\ res[1].out.size[1] < arg.size[1]
    /\ res[1].out.size[2] < arg.size[2]
    /\ res[1].out.px[0][0] # arg.px[0][0]
    /\ Differing(res[2]) = {}
    /\ res[2].out = res[2].image

====
